---- MODULE Spec2Model ----
(***************************************************************************)
(* Model of nbt/region.py: class RegionFile, a container of 32x32 chunks   *)
(* kept in one file.  Sectors 0 and 1 of the file are the header (the      *)
(* offset/length table and the timestamp table); every later sector holds  *)
(* chunk records (4-byte length, 1-byte compression, compressed stream).   *)
(*                                                                         *)
(* The file is modelled at sector granularity with a byte-exact size:      *)
(*   fsize  the size of the file in bytes                                  *)
(*   tbl    the two header tables on disk, per modelled coordinate         *)
(*   disk   per sector, the 4-byte length and the 1-byte compression a     *)
(*          reader finds at the start of the sector, and which part of     *)
(*          which stream follows them                                      *)
(* and RegionFile's attributes header, chunk_headers and size are the      *)
(* in-memory tables.  write_chunk is modelled statement by statement for   *)
(* its file writes, because the order of those writes is what one of the   *)
(* checked properties is about.                                            *)
(***************************************************************************)
EXTENDS Integers, Sequences, FiniteSets, TLC

\* ------------------------------------------------------------------ bounds
MaxOps == 2
MaxSector == 9

\* --------------------------------------------------------------- constants
SECTORLEN == 4096
STATUS_CHUNK_OVERLAPPING == -5
STATUS_CHUNK_MISMATCHED_LENGTHS == -4
STATUS_CHUNK_ZERO_LENGTH == -3
STATUS_CHUNK_IN_HEADER == -2
STATUS_CHUNK_OUT_OF_FILE == -1
STATUS_CHUNK_OK == 0
STATUS_CHUNK_NOT_CREATED == 1
\* Python's None in the chunk_headers tuples.
None == -1
\* parse_header's minimum size: the two header sectors.
HEADERLEN == 8192
\* The largest sector count the length byte of a slot holds (format "B").
MaxSlotLength == 255

\* The modelled coordinates: the first slot, the last slot and one between.
\* Every other slot of the table is all zero (not created).
Coords == {<<0, 0>>, <<5, 5>>, <<31, 31>>}
C00 == <<0, 0>>

\* The slot number of a coordinate: x + z*32.
SlotIndex(c) == c[1] + c[2] * 32

Max(a, b) == IF a >= b THEN a ELSE b

\* ------------------------------------------------------------- sector math
\* Faulty variant: the remainder is dropped (floor instead of ceiling).
_bytes_to_sector_Floor(bsize, sectorlen) == bsize \div sectorlen

_bytes_to_sector(bsize, sectorlen) ==
    LET sectors == bsize \div sectorlen
        remainder == bsize % sectorlen
    IN  IF remainder = 0 THEN sectors ELSE sectors + 1

\* ---------------------------------------------------------------- payloads
\* Three sample payloads, told apart by the size of their zlib stream: Small
\* fits one sector with its 5-byte chunk header, Big needs two, and Huge
\* needs 256, one more than the length byte of a table slot can hold.
Small == "small"
Big == "big"
Huge == "huge"
NoPayload == "none"
Payloads == {Small, Big, Huge}

\* len(zlib.compress(bytes of the payload)).
CompressedSize(p) ==
    IF p = Small THEN 20 ELSE IF p = Big THEN 5000 ELSE 255 * SECTORLEN

\* What a reader that takes the second sector of Big's stream for the start
\* of a chunk finds as length and compression: bytes of compressed data.
ContLen(p) == 70000
ContCodec(p) == 9

ZeroSector == [len |-> 0, codec |-> 0, body |-> <<NoPayload, "zero", 0>>]

\* The sector k of a chunk record holding payload p in stream format fmt with
\* compression byte codec, as an arbitrary writer of the format lays it out.
RecordSector(p, fmt, codec, k) ==
    IF k = 0
    THEN [len |-> CompressedSize(p) + 1, codec |-> codec, body |-> <<p, fmt, 0>>]
    ELSE [len |-> ContLen(p), codec |-> ContCodec(p), body |-> <<p, fmt, k>>]

\* The file (self.file):
\*   fsize    its length in bytes (get_size, lines 128-131);
\*   tbl      c -> <<offset, length, timestamp>>, the slot of c in the two
\*            header tables (read at lines 167-171, written at 436-442, 459-462);
\*   disk     sector -> the record bytes that start there (lines 425-428);
\*   damaged  a record was written over the header table (sector 0).
\* The RegionFile object:
\*   header         self.header, c -> <<offset, length, timestamp, status>>;
\*   chunk_headers  self.chunk_headers, c -> <<length, compression, status>>;
\*   size           self.size (line 155);
\*   opened         how __init__ ended (lines 125-126).
\* The caller:
\*   pc   the position inside write_chunk ("idle" between calls);
\*   w    the locals of the write_chunk call in progress or last made;
\*   ret  the last call made and what it returned or raised;
\*   ops  the number of write_chunk and unlink_chunk calls made.
\* A caller of the static method _bytes_to_sector:
\*   nbytes  the size in bytes it passed;
\*   nsect   the number of sectors it got back.
VARIABLES fsize, tbl, disk, damaged, header, chunk_headers, size, opened,
          pc, w, ret, ops, nbytes, nsect

\* The argument and the result of the static method: no method of a
\* RegionFile object reads or writes them.
calc == <<nbytes, nsect>>

vars == <<fsize, tbl, disk, damaged, header, chunk_headers, size, opened,
          pc, w, ret, ops, nbytes, nsect>>

\* ------------------------------------------------------------ file access
\* The 4-byte big-endian length a reader finds at the start of sector s of a
\* file with header tables t and sectors d.  The first four bytes of sector 0
\* are the offset/length field of slot (0,0), those of sector 1 its timestamp.
SectorLen(t, d, s) ==
    IF s = 0 THEN t[C00][1] * 256 + t[C00][2]
    ELSE IF s = 1 THEN t[C00][3]
    ELSE d[s].len

\* The byte that follows it.  In sector 0 it is the first byte of slot 1.
SectorCodec(t, d, s) == d[s].codec

\* ------------------------------------------------------------ parse_header
init_header == [c \in Coords |-> <<0, 0, 0, STATUS_CHUNK_NOT_CREATED>>]

HeaderStatus(offset, length, fs) ==
    IF offset = 0 /\ length = 0 THEN STATUS_CHUNK_NOT_CREATED
    ELSE IF length = 0 THEN STATUS_CHUNK_MISMATCHED_LENGTHS
    ELSE IF offset < 2 /\ offset # 0 THEN STATUS_CHUNK_IN_HEADER
    ELSE IF (offset + length) * 4096 > fs THEN STATUS_CHUNK_OUT_OF_FILE
    ELSE STATUS_CHUNK_OK

\* Faulty variant: without the case of the empty file (lines 157-162).
parse_header_NoEmptyCase(fs, t) ==
    IF fs < HEADERLEN THEN [header |-> init_header, raised |-> TRUE]
    ELSE [header |-> [c \in Coords |->
                        <<t[c][1], t[c][2], t[c][3],
                          HeaderStatus(t[c][1], t[c][2], fs)>>],
          raised |-> FALSE]

\* parse_header on a file of fs bytes with tables t: the header dict it
\* leaves, and whether it raises NoRegionHeader.
parse_header(fs, t) ==
    IF fs = 0 THEN [header |-> init_header, raised |-> FALSE]
    ELSE IF fs < HEADERLEN THEN [header |-> init_header, raised |-> TRUE]
    ELSE [header |-> [c \in Coords |->
                        <<t[c][1], t[c][2], t[c][3],
                          HeaderStatus(t[c][1], t[c][2], fs)>>],
          raised |-> FALSE]

\* ----------------------------------------------------- parse_chunk_headers
ChunkStatus(length, region_header_length) ==
    IF length = 0 THEN STATUS_CHUNK_ZERO_LENGTH
    ELSE IF length + 4 > region_header_length * 4096
         THEN STATUS_CHUNK_MISMATCHED_LENGTHS
    ELSE STATUS_CHUNK_OK

OutOfFileReadable(offset, fs) == offset * 4096 + 5 < fs

ChunkHeaderOf(e, fs, t, d) ==
    LET offset == e[1]
        region_header_length == e[2]
        status == e[4]
    IN  IF status = STATUS_CHUNK_NOT_CREATED
        THEN <<None, None, STATUS_CHUNK_NOT_CREATED>>
        ELSE IF status = STATUS_CHUNK_OK
        THEN <<SectorLen(t, d, offset), SectorCodec(t, d, offset),
               ChunkStatus(SectorLen(t, d, offset), region_header_length)>>
        ELSE IF status = STATUS_CHUNK_OUT_OF_FILE
        THEN IF OutOfFileReadable(offset, fs)
             THEN <<SectorLen(t, d, offset), SectorCodec(t, d, offset),
                    STATUS_CHUNK_OUT_OF_FILE>>
             ELSE <<None, None, STATUS_CHUNK_OUT_OF_FILE>>
        ELSE <<None, None, status>>

parse_chunk_headers(hdr, fs, t, d) ==
    [c \in Coords |-> ChunkHeaderOf(hdr[c], fs, t, d)]

\* ------------------------------------------------------- the stream codecs
\* The stream that starts after the 5-byte chunk header of sector o can be
\* read back whole: every sector of it still holds its part and it ends
\* within the file.
StreamIntact(fs, d, o) ==
    LET b == d[o].body
        n == _bytes_to_sector(CompressedSize(b[1]) + 5, 4096)
    IN  /\ b[1] # NoPayload
        /\ b[3] = 0
        /\ o * 4096 + 5 + CompressedSize(b[1]) <= fs
        /\ \A k \in 1..(n - 1) :
              o + k <= MaxSector /\ d[o + k].body = <<b[1], b[2], k>>

Outcome(res, pay, tree) == [res |-> res, pay |-> pay, tree |-> tree]

\* gzip.decompress / zlib.decompress / no decompression of the length-1
\* bytes after the chunk header of sector o, then NBTFile(buffer=...): the
\* codecs are exact inverses of their encoders on a whole stream of their
\* own format (zlib.decompress ignores bytes after the stream, gzip does
\* not) and fail on anything else.
Decode(fs, d, o, length, compression) ==
    LET b == d[o].body
        whole == StreamIntact(fs, d, o) /\ length - 1 >= CompressedSize(b[1])
    IN  IF compression = 1
        THEN IF whole /\ b[2] = "gzip" /\ length - 1 = CompressedSize(b[1])
             THEN Outcome("Payload", b[1], TRUE)
             ELSE Outcome("ChunkDataError", NoPayload, FALSE)
        ELSE IF compression = 2
        THEN IF whole /\ b[2] = "zlib"
             THEN Outcome("Payload", b[1], TRUE)
             ELSE Outcome("ChunkDataError", NoPayload, FALSE)
        ELSE IF whole /\ b[2] = "raw"
             THEN Outcome("Payload", b[1], TRUE)
             ELSE Outcome("ChunkDataError", NoPayload, TRUE)

\* --------------------------------------------------------------- get_chunk
\* The part of get_chunk after the chunk header checks (lines 325-350).
ReadChunkData(fs, d, offset, length, compression) ==
    IF length = None \/ length <= 1
    THEN Outcome("ChunkHeaderError", NoPayload, FALSE)
    ELSE IF compression > 2
    THEN Outcome("UnknownCompression", NoPayload, FALSE)
    ELSE Decode(fs, d, offset, length, compression)

\* Faulty variant: mismatched lengths raise ChunkHeaderError (line 323 enabled).
get_chunk_at_Strict(hdr, chdrs, fs, d, c) ==
    IF hdr[c][4] = STATUS_CHUNK_NOT_CREATED
    THEN Outcome("NotFound", NoPayload, FALSE)
    ELSE IF hdr[c][4] # STATUS_CHUNK_OK
    THEN Outcome("RegionHeaderError", NoPayload, FALSE)
    ELSE IF chdrs[c][3] \in {STATUS_CHUNK_ZERO_LENGTH,
                             STATUS_CHUNK_MISMATCHED_LENGTHS}
    THEN Outcome("ChunkHeaderError", NoPayload, FALSE)
    ELSE ReadChunkData(fs, d, hdr[c][1], chdrs[c][1], chdrs[c][2])

get_chunk_at(hdr, chdrs, fs, d, c) ==
    LET offset == hdr[c][1]
        region_header_status == hdr[c][4]
    IN  IF region_header_status = STATUS_CHUNK_NOT_CREATED
        THEN Outcome("NotFound", NoPayload, FALSE)
        ELSE IF region_header_status \in {STATUS_CHUNK_IN_HEADER,
                                          STATUS_CHUNK_MISMATCHED_LENGTHS,
                                          STATUS_CHUNK_OUT_OF_FILE}
        THEN Outcome("RegionHeaderError", NoPayload, FALSE)
        ELSE IF region_header_status = STATUS_CHUNK_OK
        THEN IF c \notin DOMAIN chdrs
             THEN Outcome("KeyError", NoPayload, FALSE)
             ELSE IF chdrs[c][3] = STATUS_CHUNK_ZERO_LENGTH
             THEN Outcome("ChunkHeaderError", NoPayload, FALSE)
             ELSE ReadChunkData(fs, d, offset, chdrs[c][1], chdrs[c][2])
        ELSE Outcome("RegionHeaderError", NoPayload, FALSE)

get_chunk(c) == get_chunk_at(header, chunk_headers, fsize, disk, c)

\* -------------------------------------------------------- get_chunk_coords
\* The coordinates in the order of the two loops: x outermost.
CoordLess(a, b) == a[1] < b[1] \/ (a[1] = b[1] /\ a[2] < b[2])

RECURSIVE CoordsInOrder(_)
CoordsInOrder(S) ==
    IF S = {} THEN <<>>
    ELSE LET m == CHOOSE c \in S : \A e \in S \ {c} : CoordLess(c, e)
         IN  <<m>> \o CoordsInOrder(S \ {m})

\* The list get_chunk_coords returns, or "KeyError" when chunk_headers has
\* no entry for a coordinate (it is looked up before the offset is tested).
get_chunk_coords ==
    IF DOMAIN chunk_headers # Coords
    THEN [res |-> "KeyError", chunks |-> <<>>]
    ELSE LET defined == SelectSeq(CoordsInOrder(Coords),
                                  LAMBDA c : header[c][1] > 0)
         IN  [res |-> "list",
              chunks |-> [i \in 1..Len(defined) |->
                            [x |-> defined[i][1], z |-> defined[i][2],
                             length |-> chunk_headers[defined[i]]]]]

\* ------------------------------------------------- write_chunk: placement
\* Python's order on the header tuples (offset, length, timestamp, status).
TupleLess(a, b) ==
    \/ a[1] < b[1]
    \/ a[1] = b[1] /\ a[2] < b[2]
    \/ a[1] = b[1] /\ a[2] = b[2] /\ a[3] < b[3]
    \/ a[1] = b[1] /\ a[2] = b[2] /\ a[3] = b[3] /\ a[4] < b[4]

RECURSIVE SortedEntries(_, _)
SortedEntries(hdr, S) ==
    IF S = {} THEN <<>>
    ELSE LET m == CHOOSE c \in S : \A e \in S : ~TupleLess(hdr[e], hdr[c])
         IN  <<hdr[m]>> \o SortedEntries(hdr, S \ {m})

\* l = sorted([i for i in self.header.values() if i[0] != 0])
UsedSorted(hdr) == SortedEntries(hdr, {c \in Coords : hdr[c][1] # 0})

\* l after the insert of the false tuple (2,0,0,0) (lines 382-386).
WithSentinel(l) == IF l[1][1] # 2 THEN <<(<<2, 0, 0, 0>>)>> \o l ELSE l

\* Faulty variant: a gap one sector short is taken.
GapFits_Loose(l, i, nsectors) ==
    /\ l[i + 1][1] - (l[i][1] + l[i][2]) >= nsectors - 1
    /\ ~(l[i][1] + l[i][2] <= 1)

\* Faulty variant: free_space > nsectors instead of >=.
GapFits_Strict(l, i, nsectors) ==
    /\ l[i + 1][1] - (l[i][1] + l[i][2]) > nsectors
    /\ ~(l[i][1] + l[i][2] <= 1)

\* The loop of lines 389-404: the indexes i at which it would break.
GapFits(l, i, nsectors) ==
    /\ l[i + 1][1] - (l[i][1] + l[i][2]) >= nsectors
    /\ ~(l[i][1] + l[i][2] <= 1)

\* Faulty variant: the sector count of the file length itself, tell() without
\* the - 1.
EndOfFileSector_OfLength(fs) == _bytes_to_sector(fs, 4096) + 1

\* The sector of the append at the end of the file (lines 407-410).
EndOfFileSector(fs) == _bytes_to_sector(fs - 1, 4096) + 1

\* Faulty variant: the condition of line 369 also lets an OutOfFile slot through.
Placement_TrustsOutOfFile(hdr, fs, c, nsectors) ==
    LET offset == hdr[c][1]
        length == hdr[c][2]
        status == hdr[c][4]
        atEnd == [res |-> "ok", sector |-> EndOfFileSector(fs),
                  pad_end |-> TRUE, how |-> "end"]
    IN  IF status \in {STATUS_CHUNK_NOT_CREATED, STATUS_CHUNK_OK,
                     STATUS_CHUNK_OUT_OF_FILE}
        THEN IF nsectors <= length
             THEN [res |-> "ok", sector |-> offset, pad_end |-> FALSE,
                   how |-> "inplace"]
             ELSE IF UsedSorted(hdr) = <<>>
             THEN [res |-> "IndexError", sector |-> 0, pad_end |-> FALSE,
                   how |-> "none"]
             ELSE LET l == WithSentinel(UsedSorted(hdr))
                      fits == {i \in 1..(Len(l) - 1) : GapFits(l, i, nsectors)}
                  IN  IF fits # {}
                      THEN LET i == CHOOSE j \in fits : \A k \in fits : j <= k
                           IN  [res |-> "ok", sector |-> l[i][1] + l[i][2],
                                pad_end |-> FALSE, how |-> "gap"]
                      ELSE atEnd
        ELSE atEnd

\* Lines 366-421: where write_chunk puts a record of nsectors sectors for the
\* coordinate c, or the IndexError of l[0] on an empty list.
Placement(hdr, fs, c, nsectors) ==
    LET offset == hdr[c][1]
        length == hdr[c][2]
        status == hdr[c][4]
        atEnd == [res |-> "ok", sector |-> EndOfFileSector(fs),
                  pad_end |-> TRUE, how |-> "end"]
    IN  IF status \in {STATUS_CHUNK_NOT_CREATED, STATUS_CHUNK_OK}
        THEN IF nsectors <= length
             THEN [res |-> "ok", sector |-> offset, pad_end |-> FALSE,
                   how |-> "inplace"]
             ELSE IF UsedSorted(hdr) = <<>>
             THEN [res |-> "IndexError", sector |-> 0, pad_end |-> FALSE,
                   how |-> "none"]
             ELSE LET l == WithSentinel(UsedSorted(hdr))
                      fits == {i \in 1..(Len(l) - 1) : GapFits(l, i, nsectors)}
                  IN  IF fits # {}
                      THEN LET i == CHOOSE j \in fits : \A k \in fits : j <= k
                           IN  [res |-> "ok", sector |-> l[i][1] + l[i][2],
                                pad_end |-> FALSE, how |-> "gap"]
                      ELSE atEnd
        ELSE atEnd

\* ------------------------------------------------------------- file writes
\* The tables and the sectors after file.write of the 4-byte length at the
\* start of sector s (in sector 0 these are the bytes of slot (0,0)).  A
\* sector that held a later part of a stream no longer holds that part.
TblAfterLength(t, s, length) ==
    IF s = 0 THEN [t EXCEPT ![C00] = <<length \div 256, length % 256, @[3]>>]
    ELSE t

\* pack(">IB", sector, nsectors)[1:] and pack(">I", timestamp) written to
\* the two fields of slot c.
TblAfterSlot(t, c, sector, nsectors) ==
    [t EXCEPT ![c] = <<sector % 16777216, nsectors, @[3]>>]

TblAfterTimestamp(t, c, timestamp) ==
    [t EXCEPT ![c] = <<@[1], @[2], timestamp>>]

\* Faulty variant: the slot is written before the record: lines 436-437 ahead of
\* lines 425-433.
TblAtLength_SlotFirst(t, c, sector, nsectors, length) ==
    TblAfterSlot(TblAfterLength(t, sector, length), c, sector, nsectors)

\* The tables when line 426 has run: of the header only what the length
\* field itself overwrites has changed; the slot of c is written later.
TblAtLength(t, c, sector, nsectors, length) == TblAfterLength(t, sector, length)

DiskAfterLength(d, s, length) ==
    IF s = 0 THEN d
    ELSE [d EXCEPT ![s] = [len |-> length, codec |-> @.codec,
                           body |-> IF @.body[3] > 0
                                    THEN <<@.body[1], "torn", @.body[3]>>
                                    ELSE @.body]]

\* After file.write of the compressed data of payload p behind the chunk
\* header of sector s: nsectors sectors hold the parts of its zlib stream.
DiskAfterData(d, s, p, nsectors) ==
    [q \in DOMAIN d |->
        IF q = s THEN [d[q] EXCEPT !.body = <<p, "zlib", 0>>]
        ELSE IF q > s /\ q < s + nsectors
        THEN RecordSector(p, "zlib", 2, q - s)
        ELSE d[q]]

\* ------------------------------------------------------------ initial files
\* The files the container is opened on.  Each layout is a run of chunk
\* records from sector 2 on, written by any writer of the format: payload,
\* stream format and compression byte.
Layouts ==
    { <<>>,
      << <<Small, "zlib", 2>>, <<Small, "gzip", 1>>, <<Small, "raw", 0>> >>,
      << <<Big, "zlib", 2>>, <<Small, "zlib", 3>> >>,
      << <<Small, "zlib", 0>>, <<Big, "gzip", 1>> >> }

RecordSectors(r) == _bytes_to_sector(CompressedSize(r[1]) + 5, 4096)

RECURSIVE StartOf(_, _)
StartOf(lay, i) ==
    IF i = 1 THEN 2 ELSE StartOf(lay, i - 1) + RecordSectors(lay[i - 1])

LaidOut(lay) ==
    [s \in 0..MaxSector |->
        IF \E i \in 1..Len(lay) :
              s >= StartOf(lay, i) /\ s < StartOf(lay, i) + RecordSectors(lay[i])
        THEN LET i == CHOOSE j \in 1..Len(lay) :
                        s >= StartOf(lay, j)
                        /\ s < StartOf(lay, j) + RecordSectors(lay[j])
             IN  RecordSector(lay[i][1], lay[i][2], lay[i][3], s - StartOf(lay, i))
        ELSE ZeroSector]

\* A file of fs bytes holds of a layout what lies within fs bytes: a sector
\* whose first five bytes are cut off holds nothing a reader uses, one whose
\* part of the stream is cut off holds the chunk header alone.
Truncated(fs, d) ==
    [s \in DOMAIN d |->
        LET k == d[s].body[3]
            streamEnd == (s - k) * 4096 + 5 + CompressedSize(d[s].body[1])
            partEnd == IF streamEnd < (s + 1) * 4096 THEN streamEnd
                       ELSE (s + 1) * 4096
        IN  IF d[s].body[1] = NoPayload \/ s * 4096 + 5 > fs THEN ZeroSector
            ELSE IF partEnd > fs
            THEN [len |-> d[s].len, codec |-> d[s].codec,
                  body |-> <<NoPayload, "zero", 0>>]
            ELSE d[s]]

InitSizes == {0, 100, 8192, 12289, 12293, 16384, 20480}

\* The table entries (offset, length, timestamp) a slot starts with.
InitEntries(c) ==
    IF c = C00 THEN {<<0, 0, 0>>, <<2, 1, 5>>, <<0, 1, 5>>, <<3, 1, 5>>}
    ELSE IF c = <<5, 5>>
    THEN {<<0, 0, 0>>, <<3, 1, 5>>, <<2, 2, 5>>, <<1, 1, 5>>, <<0, 1, 5>>}
    ELSE {<<0, 0, 0>>, <<4, 1, 5>>, <<1, 0, 5>>, <<6, 1, 5>>}

InitTables == {t \in [Coords -> UNION {InitEntries(c) : c \in Coords}] :
                 \A c \in Coords : t[c] \in InitEntries(c)}

ZeroTable == [c \in Coords |-> <<0, 0, 0>>]

\* The locals of the last call of write_chunk: the coordinate and payload,
\* the slot's entry as line 367 read it, the sector chosen and by which
\* branch, and size0, full0: the size of the file at the call and whether
\* its allocations left no sector free.
NoWrite == [c |-> C00, p |-> NoPayload, offset |-> 0, length |-> 0, status |-> 0,
            sector |-> 0, nsectors |-> 0, pad_end |-> FALSE, timestamp |-> 0,
            how |-> "none", size0 |-> 0, full0 |-> FALSE]

\* The sectors the entry e of the header reserves.
Reserved(e) == {s \in 0..(MaxSector + 2) : s >= e[1] /\ s < e[1] + e[2]}

\* A clean container without free space: every used entry is Ok and starts
\* after the header, no two overlap, and together they reserve every sector
\* of the file after the header.
NoFreeGaps(hdr, fs) ==
    /\ fs >= HEADERLEN
    /\ \A c \in Coords : hdr[c][1] # 0 =>
          hdr[c][4] = STATUS_CHUNK_OK /\ hdr[c][1] >= 2
    /\ \A c, e \in Coords : c # e => Reserved(hdr[c]) \cap Reserved(hdr[e]) = {}
    /\ \A s \in 2..(_bytes_to_sector(fs, 4096) - 1) :
          \E c \in Coords : s \in Reserved(hdr[c])

Ret(op, c, arg, out) == [op |-> op, c |-> c, arg |-> arg, out |-> out]

\* __init__ (lines 125-126): parse_header, then parse_chunk_headers unless
\* parse_header raised, in which case the constructor raises too.
Init ==
    /\ fsize \in InitSizes
    /\ IF fsize < HEADERLEN
       THEN tbl = ZeroTable /\ disk = LaidOut(<<>>)
       ELSE /\ tbl \in InitTables
            /\ \E lay \in Layouts : disk = Truncated(fsize, LaidOut(lay))
    /\ damaged = FALSE
    /\ size = fsize
    /\ header = parse_header(fsize, tbl).header
    /\ IF parse_header(fsize, tbl).raised
       THEN /\ chunk_headers = <<>>
            /\ opened = "NoRegionHeader"
       ELSE /\ chunk_headers = parse_chunk_headers(header, fsize, tbl, disk)
            /\ opened = "ok"
    /\ pc = "idle"
    /\ w = NoWrite
    /\ ret = Ret("open", C00, NoPayload, Outcome(opened, NoPayload, FALSE))
    /\ ops = 0
    /\ nbytes = 0
    /\ nsect = _bytes_to_sector(nbytes, SECTORLEN)

\* The time.time() values a write may see.
Clock == {7}

\* ------------------------------------------------------------- write_chunk
\* Lines 356-426: compress, choose the sector, write the length field.
WriteLength(c, p, now) ==
    /\ UNCHANGED calc
    /\ pc = "idle" /\ opened = "ok" /\ ~damaged /\ ops < MaxOps
    /\ LET nsectors == _bytes_to_sector(CompressedSize(p) + 5, 4096)
           pl == Placement(header, fsize, c, nsectors)
           locals == [c |-> c, p |-> p, offset |-> header[c][1],
                      length |-> header[c][2], status |-> header[c][4],
                      sector |-> pl.sector, nsectors |-> nsectors,
                      pad_end |-> pl.pad_end, timestamp |-> now,
                      how |-> pl.how, size0 |-> fsize,
                      full0 |-> NoFreeGaps(header, fsize)]
       IN  IF pl.res = "IndexError"
           THEN /\ ret' = Ret("write", c, p, Outcome("IndexError", NoPayload, FALSE))
                /\ w' = locals
                /\ UNCHANGED <<fsize, tbl, disk, pc>>
           ELSE /\ IF nsectors > MaxSlotLength
                   THEN pl.sector <= MaxSector
                   ELSE pl.sector + nsectors - 1 <= MaxSector
                /\ w' = locals
                /\ tbl' = TblAtLength(tbl, c, pl.sector, nsectors,
                                      CompressedSize(p) + 1)
                /\ disk' = DiskAfterLength(disk, pl.sector, CompressedSize(p) + 1)
                /\ fsize' = Max(fsize, pl.sector * 4096 + 4)
                /\ pc' = "length"
                /\ UNCHANGED ret
    /\ ops' = ops + 1
    /\ UNCHANGED <<damaged, header, chunk_headers, size, opened>>

\* Line 427: the compression byte.  In sector 0 it lands in slot 1, which is
\* not a modelled slot: the tables are damaged beyond what the model holds.
WriteCompression ==
    /\ UNCHANGED calc
    /\ pc = "length"
    /\ disk' = [disk EXCEPT ![w.sector].codec = 2]
    /\ fsize' = Max(fsize, w.sector * 4096 + 5)
    /\ damaged' = (damaged \/ w.sector = 0)
    /\ pc' = "compression"
    /\ UNCHANGED <<tbl, header, chunk_headers, size, opened, w, ret, ops>>

\* Line 428: the compressed data.
WriteData ==
    /\ UNCHANGED calc
    /\ pc = "compression"
    /\ disk' = DiskAfterData(disk, w.sector, w.p, w.nsectors)
    /\ fsize' = Max(fsize, w.sector * 4096 + 5 + CompressedSize(w.p))
    /\ pc' = "data"
    /\ UNCHANGED <<tbl, damaged, header, chunk_headers, size, opened, w, ret, ops>>

\* Lines 429-433: one zero byte at the end of the last sector.
WritePad ==
    /\ UNCHANGED calc
    /\ pc = "data" /\ w.pad_end
    /\ fsize' = Max(fsize, (w.sector + w.nsectors) * 4096)
    /\ pc' = "pad"
    /\ UNCHANGED <<tbl, disk, damaged, header, chunk_headers, size, opened,
                   w, ret, ops>>

\* Lines 436-437: offset and length of the slot.  pack(">IB", sector,
\* nsectors) raises struct.error for nsectors over 255, and write_chunk ends
\* there: the record is in the file, the slot is not written and the
\* tables are not parsed again.
WriteSlot ==
    /\ UNCHANGED calc
    /\ pc = "pad" \/ (pc = "data" /\ ~w.pad_end)
    /\ IF w.nsectors > MaxSlotLength
       THEN /\ ret' = Ret("write", w.c, w.p,
                          Outcome("struct.error", NoPayload, FALSE))
            /\ pc' = "idle"
            /\ UNCHANGED <<fsize, tbl>>
       ELSE /\ tbl' = TblAfterSlot(tbl, w.c, w.sector, w.nsectors)
            /\ fsize' = Max(fsize, 4 * SlotIndex(w.c) + 4)
            /\ pc' = "slot"
            /\ UNCHANGED ret
    /\ UNCHANGED <<disk, damaged, header, chunk_headers, size, opened, w, ops>>

\* Lines 440-442: the timestamp of the slot.
WriteTimestamp ==
    /\ UNCHANGED calc
    /\ pc = "slot"
    /\ tbl' = TblAfterTimestamp(tbl, w.c, w.timestamp)
    /\ fsize' = Max(fsize, 4096 + 4 * SlotIndex(w.c) + 4)
    /\ pc' = "timestamp"
    /\ UNCHANGED <<disk, damaged, header, chunk_headers, size, opened, w, ret, ops>>

\* Lines 445-446: both tables are parsed again.
WriteParse ==
    /\ UNCHANGED calc
    /\ pc = "timestamp"
    /\ size' = fsize
    /\ header' = parse_header(fsize, tbl).header
    /\ IF parse_header(fsize, tbl).raised
       THEN /\ chunk_headers' = chunk_headers
            /\ ret' = Ret("write", w.c, w.p, Outcome("NoRegionHeader", NoPayload, FALSE))
       ELSE /\ chunk_headers' = parse_chunk_headers(header', fsize, tbl, disk)
            /\ ret' = Ret("write", w.c, w.p, Outcome("ok", NoPayload, FALSE))
    /\ pc' = "idle"
    /\ UNCHANGED <<fsize, tbl, disk, damaged, opened, w, ops>>

\* ------------------------------------------------------------ unlink_chunk
\* Faulty variant: the timestamp is left as it was.
TblAfterUnlink_KeepTimestamp(t, c) == [t EXCEPT ![c] = <<0, 0, @[3]>>]

\* Lines 459-462: zeros in the offset/length field and in the timestamp.
TblAfterUnlink(t, c) == [t EXCEPT ![c] = <<0, 0, 0>>]

unlink_chunk(c) ==
    /\ UNCHANGED calc
    /\ pc = "idle" /\ opened = "ok" /\ ~damaged /\ ops < MaxOps
    /\ tbl' = TblAfterUnlink(tbl, c)
    /\ fsize' = Max(fsize, 4096 + 4 * SlotIndex(c) + 4)
    /\ size' = fsize'
    /\ header' = parse_header(fsize', tbl').header
    /\ IF parse_header(fsize', tbl').raised
       THEN /\ chunk_headers' = chunk_headers
            /\ ret' = Ret("delete", c, NoPayload, Outcome("NoRegionHeader", NoPayload, FALSE))
       ELSE /\ chunk_headers' = parse_chunk_headers(header', fsize', tbl', disk)
            /\ ret' = Ret("delete", c, NoPayload, Outcome("ok", NoPayload, FALSE))
    /\ ops' = ops + 1
    /\ UNCHANGED <<disk, damaged, opened, pc, w>>

\* get_chunk as an operation: the caller gets its outcome.
ReadRecord(c) ==
    /\ UNCHANGED calc
    /\ pc = "idle" /\ opened = "ok"
    /\ ret' = Ret("read", c, NoPayload, get_chunk(c))
    /\ UNCHANGED <<fsize, tbl, disk, damaged, header, chunk_headers, size,
                   opened, pc, w, ops>>

Next ==
    \/ \E c \in Coords, p \in Payloads, now \in Clock : WriteLength(c, p, now)
    \/ WriteCompression
    \/ WriteData
    \/ WritePad
    \/ WriteSlot
    \/ WriteTimestamp
    \/ WriteParse
    \/ \E c \in Coords : unlink_chunk(c)
    \/ \E c \in Coords : ReadRecord(c)

Spec == Init /\ [][Next]_vars

\* ------------------------------------------------- _bytes_to_sector alone
\* The static method called on its own, on the sizes up to one byte past
\* the last modelled sector, with no container involved (a 0-byte file).
MaxBytes == (MaxSector + 1) * SECTORLEN + 1

CallBytesToSector(n) ==
    /\ n <= MaxBytes
    /\ nbytes' = n
    /\ nsect' = _bytes_to_sector(n, SECTORLEN)
    /\ UNCHANGED <<fsize, tbl, disk, damaged, header, chunk_headers, size,
                   opened, pc, w, ret, ops>>

SectorInit == fsize = 0 /\ Init

SectorNext ==
    \E n \in {nbytes + 1, nbytes + SECTORLEN - 1, nbytes + SECTORLEN} :
        CallBytesToSector(n)

SectorSpec == SectorInit /\ [][SectorNext]_vars

\* ------------------------------------------------- from a clean container
\* A table without corruption: every slot is either unused (0,0) or Ok with
\* its sectors after the header, and no two slots share a sector.
Clean(t, fs) ==
    /\ \A c \in Coords :
          \/ t[c][1] = 0 /\ t[c][2] = 0
          \/ t[c][1] >= 2 /\ HeaderStatus(t[c][1], t[c][2], fs) = STATUS_CHUNK_OK
    /\ \A c, e \in Coords : c # e => Reserved(t[c]) \cap Reserved(t[e]) = {}

\* The container is opened on a file with a clean table.
CleanInit == Init /\ Clean(tbl, fsize)

CleanSpec == CleanInit /\ [][Next]_vars

\* ================================================================ properties
FormatErrors == {"RegionHeaderError", "ChunkHeaderError",
                 "UnknownCompression", "ChunkDataError"}

\* write_chunk has just returned (normally or not) and nothing ran since.
WriteReturned == pc = "idle" /\ ret.op = "write"

\* C1: round trip.  When write_chunk(x,z,P) has returned without an error,
\* get_chunk(x,z) returns the payload P.
C1_RoundTrip ==
    (WriteReturned /\ ret.out.res = "ok")
        => get_chunk(ret.c) = Outcome("Payload", ret.arg, TRUE)

\* C2: a write to a container in which no slot has a nonzero offset
\* succeeds, puts the record at sector 2 with bytesToSectors(compressed
\* size + 5) sectors, and a read of the coordinate returns the payload.
C2_WriteToEmpty ==
    (WriteReturned /\ w.offset = 0 /\ w.length = 0
       /\ \A c \in Coords \ {w.c} : header[c][1] = 0)
        => /\ ret.out.res = "ok"
           /\ header[w.c][1] = 2
           /\ header[w.c][2] = _bytes_to_sector(CompressedSize(w.p) + 5, 4096)
           /\ get_chunk(w.c) = Outcome("Payload", w.p, TRUE)

\* The last call of write_chunk rewrote a coordinate that held data, with a
\* record of more sectors than the slot reserved and of no more than a slot
\* can hold, in a container without free space.
GrownRewrite ==
    /\ w.full0
    /\ w.status = STATUS_CHUNK_OK /\ w.offset # 0
    /\ w.nsectors > w.length
    /\ w.nsectors <= MaxSlotLength

NSectors(p) == _bytes_to_sector(CompressedSize(p) + 5, 4096)

\* The record of nsectors sectors for c would go into the sectors the last
\* write vacated.
IntoVacated(c, nsectors) ==
    LET pl == Placement(header, fsize, c, nsectors)
    IN  /\ pl.res = "ok" /\ pl.how # "end"
        /\ pl.sector >= w.offset
        /\ pl.sector + nsectors <= w.offset + w.length

GrownGoesPastEnd ==
    ((pc # "idle" \/ WriteReturned) /\ GrownRewrite)
        => /\ w.how = "end"
           /\ w.sector * 4096 > w.size0
           /\ (pc = "idle" => ret.out.res = "ok" /\ header[w.c][1] = w.sector)

C4_HeaderOffsetsInHeader ==
    (pc = "idle" /\ opened = "ok" /\ size >= HEADERLEN)
        => \A c \in Coords :
              (header[c][1] \in {0, 1} /\ header[c][2] > 0)
                  => /\ header[c][4] = STATUS_CHUNK_IN_HEADER
                     /\ get_chunk(c).res \in FormatErrors

\* The slot c is Ok in the table and the length stored in its record does
\* not fit the sectors the table reserves for it.
LengthsMismatch(c) ==
    /\ header[c][4] = STATUS_CHUNK_OK
    /\ SectorLen(tbl, disk, header[c][1]) + 4 > header[c][2] * 4096

\* The record at sector o is a whole stream whose compression byte names
\* its format, with the length that its writer stored.
WellFormedRecord(o) ==
    /\ StreamIntact(fsize, disk, o)
    /\ SectorLen(tbl, disk, o) = CompressedSize(disk[o].body[1]) + 1
    /\ \/ SectorCodec(tbl, disk, o) = 1 /\ disk[o].body[2] = "gzip"
       \/ SectorCodec(tbl, disk, o) = 2 /\ disk[o].body[2] = "zlib"

\* C5: a slot that is Ok in the table and whose in-record length L has
\* L + 4 > sector length * 4096 gets the chunk status MismatchedLengths with
\* the length and compression of the record, and get_chunk does not fail
\* for it: the outcome is that of decoding the L-1 bytes behind the chunk
\* header, the payload when they are a well-formed record.
C5_MismatchReadable ==
    (pc = "idle" /\ opened = "ok")
        => \A c \in Coords : LengthsMismatch(c) =>
              LET o == header[c][1]
                  L == SectorLen(tbl, disk, o)
              IN  /\ chunk_headers[c] = <<L, SectorCodec(tbl, disk, o),
                                          STATUS_CHUNK_MISMATCHED_LENGTHS>>
                  /\ get_chunk(c).res \in {"Payload", "ChunkDataError",
                                            "UnknownCompression"}
                  /\ get_chunk(c) = ReadChunkData(fsize, disk, o, L,
                                                  SectorCodec(tbl, disk, o))
                  /\ WellFormedRecord(o)
                        => get_chunk(c) = Outcome("Payload", disk[o].body[1], TRUE)

\* A read of a slot with mismatched lengths has returned the payload.
C5_Witness ==
    /\ pc = "idle" /\ ret.op = "read" /\ LengthsMismatch(ret.c)
    /\ ret.out.res = "Payload"
    /\ ret.out.pay = disk[header[ret.c][1]].body[1]

\* C6: unlink_chunk(x,z) leaves the entry (0,0,0,NotCreated) for the slot,
\* after which get_chunk(x,z) raises InconceivedChunk; on disk it changes
\* the two fields of the slot and nothing else: no sector after the header
\* and no other slot's entry.  In memory the other slots keep their offset,
\* length and timestamp, and their status too when self.size was the size
\* of the file before the call.
C6_Unlink ==
    [][(pc = "idle" /\ pc' = "idle" /\ ops' = ops + 1 /\ ret'.op = "delete")
        => /\ header'[ret'.c] = <<0, 0, 0, STATUS_CHUNK_NOT_CREATED>>
           /\ tbl'[ret'.c] = <<0, 0, 0>>
           /\ get_chunk_at(header', chunk_headers', fsize', disk', ret'.c)
                = Outcome("NotFound", NoPayload, FALSE)
           /\ disk' = disk
           /\ \A c \in Coords \ {ret'.c} :
                 /\ tbl'[c] = tbl[c]
                 /\ \A i \in 1..3 : header'[c][i] = header[c][i]
                 /\ size = fsize => header'[c] = header[c]]_vars

\* A delete has returned, the slot is gone, and a record is still on disk
\* in a sector that no slot refers to.
C6_Witness ==
    /\ pc = "idle" /\ ret.op = "delete" /\ ret.out.res = "ok"
    /\ header[ret.c] = <<0, 0, 0, STATUS_CHUNK_NOT_CREATED>>
    /\ \E s \in 2..MaxSector :
          /\ WellFormedRecord(s)
          /\ \A c \in Coords : header[c][1] # s
    /\ \E c \in Coords : header[c][4] = STATUS_CHUNK_OK

\* C7: a container opened on a file of 0 bytes: the open raised nothing,
\* every coordinate has the entry (0,0,0,NotCreated) and the chunk header
\* (None,None,NotCreated), get_chunk_coords is empty and get_chunk raises
\* InconceivedChunk for every coordinate.
C7_EmptyContainer ==
    (fsize = 0)
        => /\ opened = "ok"
           /\ DOMAIN chunk_headers = Coords
           /\ \A c \in Coords :
                 /\ header[c] = <<0, 0, 0, STATUS_CHUNK_NOT_CREATED>>
                 /\ chunk_headers[c] = <<None, None, STATUS_CHUNK_NOT_CREATED>>
                 /\ get_chunk(c) = Outcome("NotFound", NoPayload, FALSE)
           /\ get_chunk_coords = [res |-> "list", chunks |-> <<>>]

\* A read on the empty container has returned.
C7_Witness ==
    /\ fsize = 0 /\ ret.op = "read" /\ ret.out.res = "NotFound"

\* C8: a read of a slot that is Ok in the table and lies after the header,
\* with an in-record length above 1 and a compression byte other than 1 and
\* 2, fails with the unknown-compression error and hands nothing to the
\* tree codec.
C8_UnknownCodecRejected ==
    (pc = "idle" /\ opened = "ok")
        => \A c \in Coords :
              (/\ header[c][4] = STATUS_CHUNK_OK /\ header[c][1] >= 2
               /\ chunk_headers[c][3] # STATUS_CHUNK_ZERO_LENGTH
               /\ chunk_headers[c][1] > 1
               /\ chunk_headers[c][2] \notin {1, 2})
                  => /\ get_chunk(c).res = "UnknownCompression"
                     /\ ~get_chunk(c).tree

\* C9: the open of a file of 1..8191 bytes reports NoRegionHeader
\* and leaves a container in empty form: every header entry is
\* (0,0,0,NotCreated), every chunk header (None,None,NotCreated), every read
\* is NotFound and get_chunk_coords returns the empty list.
C9_SmallFileUsable ==
    (ret.op = "open" /\ fsize > 0 /\ fsize < HEADERLEN)
        => /\ opened = "NoRegionHeader"
           /\ \A c \in Coords :
                 /\ header[c] = <<0, 0, 0, STATUS_CHUNK_NOT_CREATED>>
                 /\ get_chunk(c) = Outcome("NotFound", NoPayload, FALSE)
           /\ DOMAIN chunk_headers = Coords
           /\ \A c \in Coords :
                 chunk_headers[c] = <<None, None, STATUS_CHUNK_NOT_CREATED>>
           /\ get_chunk_coords = [res |-> "list", chunks |-> <<>>]

\* A call of write_chunk is between its first and its last file write.
InWrite == pc \in {"length", "compression", "data", "pad", "slot", "timestamp"}

\* Lines 425-433 have all run for the write in progress.
BytesWritten ==
    \/ pc \in {"pad", "slot", "timestamp"}
    \/ pc = "data" /\ ~w.pad_end

\* The compression byte, the stream and the padding of the write in
\* progress are in the file.
DataInFile ==
    /\ SectorCodec(tbl, disk, w.sector) = 2
    /\ disk[w.sector].body = <<w.p, "zlib", 0>>
    /\ StreamIntact(fsize, disk, w.sector)
    /\ w.pad_end => fsize >= (w.sector + w.nsectors) * 4096

\* The record of the write in progress is completely written.
RecordComplete ==
    /\ BytesWritten
    /\ DataInFile
    /\ SectorLen(tbl, disk, w.sector) = CompressedSize(w.p) + 1

\* C10 as first stated: at no step of a write does the slot of the written
\* coordinate, on disk, refer to the sector of a record that is not yet
\* completely written (stated for records placed after the two header
\* sectors).
C10_NeverRefersToPartialRecord ==
    (InWrite /\ w.sector >= 2 /\ tbl[w.c][1] = w.sector) => RecordComplete

\* C10 amended: the slot is written after the record bytes and the padding,
\* and a write that puts the record at another sector than the one the slot
\* held has the slot, on disk, unchanged until the record is completely
\* written, and referring to the complete record afterwards.
C10_SlotAfterRecord ==
    /\ (pc \in {"slot", "timestamp"}) => (BytesWritten /\ DataInFile)
    /\ (InWrite /\ w.sector # w.offset)
         => IF pc \in {"slot", "timestamp"}
            THEN tbl[w.c][1] = w.sector /\ tbl[w.c][2] = w.nsectors
                 /\ RecordComplete
            ELSE tbl[w.c] = <<w.offset, w.length, header[w.c][3]>>

\* A record is going to another sector than the one its slot holds, and
\* only part of it is written.
C10_Witness ==
    /\ pc = "compression" /\ w.sector # w.offset /\ w.offset >= 2
    /\ w.status = STATUS_CHUNK_OK

\* C11: _bytes_to_sector(n) is the ceiling of n/4096: the sectors it counts
\* hold n bytes, with less than one sector to spare, and 0 bytes need none.
C11_Ceiling ==
    /\ nsect * SECTORLEN >= nbytes
    /\ nsect * SECTORLEN - nbytes < SECTORLEN
    /\ (nbytes = 0 => nsect = 0)

\* The method was called on a size that is not a whole number of sectors.
C11_Witness ==
    nbytes > SECTORLEN /\ nbytes % SECTORLEN # 0 /\ nsect = nbytes \div SECTORLEN + 1

\* write_chunk or unlink_chunk has just returned, normally or by raising.
MutationReturned == pc = "idle" /\ ret.op \in {"write", "delete"}

\* C12: when write_chunk or unlink_chunk has returned, normally or not,
\* self.header holds for every coordinate the offset, length and timestamp
\* that are in the file, self.size is the size of the file, and the status
\* is the classification of (offset, length) against that size.
C12_TablesReflectFile ==
    MutationReturned
        => /\ size = fsize
           /\ \A c \in Coords :
                 /\ <<header[c][1], header[c][2], header[c][3]>> = tbl[c]
                 /\ header[c][4] = HeaderStatus(tbl[c][1], tbl[c][2], fsize)

\* C13: for a slot that is OutOfFile in the header, the chunk header holds a
\* length and a compression read from the file exactly when five bytes at
\* the slot's offset lie within the file, offset*4096 + 5 <= size, and holds
\* None for both otherwise; its status is OutOfFile either way.
C13_OutOfFileHeaderRead ==
    opened = "ok"
        => \A c \in Coords :
              header[c][4] = STATUS_CHUNK_OUT_OF_FILE
                  => /\ chunk_headers[c][3] = STATUS_CHUNK_OUT_OF_FILE
                     /\ IF header[c][1] * SECTORLEN + 5 <= size
                        THEN chunk_headers[c][1] # None /\ chunk_headers[c][2] # None
                        ELSE chunk_headers[c][1] = None /\ chunk_headers[c][2] = None

\* write_chunk got past its search for a place and appends at the end of
\* the file.
Appends == (pc # "idle" \/ WriteReturned) /\ w.how = "end"

\* C14 as first stated: an append puts the record at sector
\* bytesToSectors(file length) + 1, whatever the file length.
C14_AppendAfterLengthSectors ==
    Appends => w.sector = _bytes_to_sector(w.size0, SECTORLEN) + 1

\* C14 amended: an append puts the record at sector
\* bytesToSectors(file length - 1) + 1: that is bytesToSectors(file length)
\* + 1, except for a file whose length is one byte over a whole number of
\* sectors, where it is bytesToSectors(file length); the end is padded.
C14_AppendSector ==
    Appends
        => /\ w.sector = IF w.size0 % SECTORLEN = 1
                         THEN _bytes_to_sector(w.size0, SECTORLEN)
                         ELSE _bytes_to_sector(w.size0, SECTORLEN) + 1
           /\ w.pad_end

\* An append to a file one byte over three sectors has returned.
C14_Witness ==
    /\ WriteReturned /\ ret.out.res = "ok" /\ w.how = "end"
    /\ w.size0 % SECTORLEN = 1
    /\ header[w.c][1] = w.sector

\* write_chunk has searched for free space: the slot was Ok or NotCreated
\* and the record did not fit its sectors.  self.header is still the one the
\* search saw.
Searched ==
    /\ pc # "idle" \/ (WriteReturned /\ ret.out.res = "IndexError")
    /\ w.status \in {STATUS_CHUNK_OK, STATUS_CHUNK_NOT_CREATED}
    /\ w.nsectors > w.length

\* The allocations in ascending order, with the start of the data region in
\* front when the first allocation does not begin there.
Allocations(hdr) ==
    IF UsedSorted(hdr) = <<>> THEN <<(<<2, 0, 0, 0>>)>>
    ELSE WithSentinel(UsedSorted(hdr))

\* The allocations followed by a gap of at least nsectors sectors.
GapsOf(l, nsectors) ==
    {i \in 1..(Len(l) - 1) : l[i + 1][1] - (l[i][1] + l[i][2]) >= nsectors}

\* C15: the search is first fit: the record goes behind the first
\* allocation, in ascending order and the start of the data region first,
\* that is followed by a gap of at least nsectors sectors, and to the end of
\* the file only when there is no such gap.
C15_FirstFit ==
    Searched
        => LET l == Allocations(header)
               gaps == GapsOf(l, w.nsectors)
           IN  IF gaps # {}
               THEN LET i == CHOOSE j \in gaps : \A k \in gaps : j <= k
                    IN  w.how = "gap" /\ w.sector = l[i][1] + l[i][2]
               ELSE w.how = "end"

\* write_chunk has chosen the sector for a slot whose status in the header
\* is InHeader, MismatchedLengths or OutOfFile.
WriteToBadSlot ==
    /\ pc # "idle" \/ (WriteReturned /\ ret.out.res # "IndexError")
    /\ w.status \in {STATUS_CHUNK_IN_HEADER, STATUS_CHUNK_MISMATCHED_LENGTHS,
                      STATUS_CHUNK_OUT_OF_FILE}

\* C16 as first stated: such a write goes to the end of the file, with end
\* padding, never into a gap and never to the offset the slot states.
C16_NeverStatedOffset ==
    WriteToBadSlot
        => w.how = "end" /\ w.pad_end /\ w.sector # w.offset

\* C16 amended: such a write goes to the end of the file, with end padding,
\* whatever the size of the record and the gaps: to the sector that
\* lines 415-419 compute from the file length, at or after the last byte of
\* the file.  The offset the slot states plays no part: the two are the
\* same sector only when the stated offset happens to be that of the append.
C16_BadSlotAppends ==
    WriteToBadSlot
        => /\ w.how = "end" /\ w.pad_end
           /\ w.sector = _bytes_to_sector(w.size0 - 1, SECTORLEN) + 1
           /\ w.sector * SECTORLEN >= w.size0

\* A write to an OutOfFile slot whose length would have held the record, in
\* a file with a gap that would have held it too, has written the record and
\* the slot.
C16_Witness ==
    /\ pc = "timestamp"
    /\ w.status = STATUS_CHUNK_OUT_OF_FILE
    /\ w.nsectors <= w.length
    /\ w.sector # w.offset
    /\ tbl[w.c][1] = w.sector /\ w.how = "end"
    /\ GapsOf(Allocations(header), w.nsectors) # {}

\* C17: from a clean container on, the sectors of distinct coordinates stay
\* pairwise disjoint, start at sector 2 or later and lie within the file,
\* whatever is written and deleted: in the table of the file at every step,
\* and in self.header.
C17_StaysClean ==
    /\ Clean(tbl, fsize)
    /\ Clean([c \in Coords |-> <<header[c][1], header[c][2], header[c][3]>>],
             fsize)
    /\ \A c \in Coords :
          header[c][4] \in {STATUS_CHUNK_OK, STATUS_CHUNK_NOT_CREATED}

\* A record has been written into a gap between two others, all three
\* slots are in use.
C17_Witness ==
    /\ WriteReturned /\ ret.out.res = "ok" /\ w.how = "gap"
    /\ \A c \in Coords : header[c][4] = STATUS_CHUNK_OK
    /\ \E c \in Coords : header[c][1] > header[w.c][1]

\* write_chunk has chosen a sector and writes, or has written, the record.
Placed == pc # "idle" \/ (WriteReturned /\ ret.out.res # "IndexError")

\* C18: write_chunk never puts a record in sector 0 or 1: the sector it
\* chooses is 2 or later, and no record byte lands in a header table.
C18_NeverInHeader ==
    Placed => (w.sector >= 2 /\ ~damaged)

\* C19: when write_chunk has returned without an error, the entry parsed
\* again for the written coordinate is Ok in the header and in the chunk
\* headers: its sectors lie within the file and the length stored in the
\* record, plus 4, fits them.
C19_WrittenSlotOk ==
    (WriteReturned /\ ret.out.res = "ok")
        => /\ header[w.c][4] = STATUS_CHUNK_OK
           /\ chunk_headers[w.c][3] = STATUS_CHUNK_OK
           /\ (header[w.c][1] + header[w.c][2]) * SECTORLEN <= fsize
           /\ chunk_headers[w.c][1] + 4 <= header[w.c][2] * SECTORLEN

\* C20: unlink_chunk on the container of a 0-byte file raises nothing and
\* leaves a file that opens again: of 0 bytes or of at least 8192, with
\* every slot NotCreated.
C20_UnlinkOnEmptyFile ==
    [][(fsize = 0 /\ pc = "idle" /\ pc' = "idle" /\ ops' = ops + 1
          /\ ret'.op = "delete")
        => /\ ret'.out.res = "ok"
           /\ fsize' = 0 \/ fsize' >= HEADERLEN
           /\ ~parse_header(fsize', tbl').raised
           /\ \A c \in Coords :
                 parse_header(fsize', tbl').header[c]
                    = <<0, 0, 0, STATUS_CHUNK_NOT_CREATED>>]_vars

====
